---------------------------- MODULE Spec2Model ----------------------------
(***************************************************************************)
(* A model of the graph-matching engine of vermouth (graph_utils.py):      *)
(* the categorical product graphs, the clique-based maximum common         *)
(* subgraph searches, the element/hydrogen-aware subgraph isomorphism,     *)
(* rate_match, blockmodel, make_residue_graph and add_element_attr; and of *)
(* the BipolarFormatter of log_helpers.py.                                 *)
(*                                                                         *)
(* A graph is a record [nodes, edges, element, atomname]: nodes is a set   *)
(* of node indices, edges a set of two-element sets of nodes (networkx     *)
(* Graph: undirected, no parallel edges; the graphs drawn here have no     *)
(* self-loops and no edge attributes), element and atomname are the node   *)
(* attributes, with the value Absent for a node whose attribute dictionary *)
(* lacks the key.  Iteration over a graph or over a set of small integers  *)
(* yields the nodes in ascending order.                                    *)
(***************************************************************************)
EXTENDS Naturals, Integers, Sequences, FiniteSets, TLC

\* The largest node index of an input graph.
MaxNodes == 3

NodeIds == 1..MaxNodes

\* The values of the element and of the atomname attribute of the inputs.
Elements == {"C", "H"}

Names == {"A", "B"}

\* The atom name of the nodes of the graphs that are drawn with one name.
DefaultName == "A"

\* The value standing for a key that is missing from an attribute dict.
Absent == "absent"

\* The attribute selectors (the `attributes` tuple) drawn for the inputs.
Selectors == {<<>>, <<"element">>}

--------------------------------------------------------------------------
(* Generic helpers *)

Min(S) == CHOOSE x \in S : \A y \in S : x <= y

RECURSIVE SortedSeq(_)
\* The elements of a set of integers as an ascending sequence.
SortedSeq(S) ==
    IF S = {} THEN << >>
    ELSE LET m == Min(S) IN << m >> \o SortedSeq(S \ {m})

RECURSIVE Flatten(_)
\* itertools.chain(*seqs): the concatenation of a sequence of sequences.
Flatten(seqs) ==
    IF seqs = << >> THEN << >>
    ELSE Head(seqs) \o Flatten(Tail(seqs))

Range(s) == { s[i] : i \in DOMAIN s }

EmptyMap == << >>

\* No exception: raised is << >>, or << type, message, node >> for the
\* exception that ended the call.
NotRaised == << >>

\* d[k] = v added to (or overwritten in) the dict d.
MapPut(d, k, v) == [ x \in (DOMAIN d) \cup {k} |-> IF x = k THEN v ELSE d[x] ]

--------------------------------------------------------------------------
(* networkx.Graph accessors *)

has_edge(G, a, b) == {a, b} \in G.edges /\ a # b

neighbors(G, a) == { b \in G.nodes : has_edge(G, a, b) }

degree(G, a) == Cardinality(neighbors(G, a))

\* node[attr], Absent when the key is missing.
NodeAttr(G, idx, attr) ==
    IF attr = "element" THEN G.element[idx] ELSE G.atomname[idx]

\* Graph.subgraph(keep) / a copy with the other nodes removed.
InducedSubgraph(G, keep) ==
    [ nodes    |-> G.nodes \cap keep,
      edges    |-> { e \in G.edges : e \subseteq keep },
      element  |-> [ n \in G.nodes \cap keep |-> G.element[n] ],
      atomname |-> [ n \in G.nodes \cap keep |-> G.atomname[n] ] ]

--------------------------------------------------------------------------
(* Product graphs *)

AttrNames == {"element", "atomname"}

\* dict.get(attr, None) of a missing key.
None == "None"

\* The keys of the attribute dict of node idx.
NodeKeys(G, idx) == { a \in AttrNames : NodeAttr(G, idx, a) # Absent }

NodeGet(G, idx, attr) ==
    IF NodeAttr(G, idx, attr) = Absent THEN None ELSE NodeAttr(G, idx, attr)

\* all(attr in node1 and attr in node2 and node1[attr] == node2[attr]
\*     for attr in attributes)
AttrCompatible(graph1, idx1, graph2, idx2, attributes) ==
    \A i \in DOMAIN attributes :
        /\ NodeAttr(graph1, idx1, attributes[i]) # Absent
        /\ NodeAttr(graph2, idx2, attributes[i]) # Absent
        /\ NodeAttr(graph1, idx1, attributes[i]) = NodeAttr(graph2, idx2, attributes[i])

\* A product graph: nodes are pairs <<idx1, idx2>>, edges two-element sets
\* of pairs, attrs the attribute dict of every node (attribute name ->
\* pair of values).
categorical_cartesian_product(graph1, graph2, attributes) ==
    LET nodes == { p \in graph1.nodes \X graph2.nodes :
                     AttrCompatible(graph1, p[1], graph2, p[2], attributes) }
    IN  [ nodes |-> nodes,
          edges |-> {},
          attrs |-> [ p \in nodes |->
                        [ a \in NodeKeys(graph1, p[1]) \cup NodeKeys(graph2, p[2]) |->
                            << NodeGet(graph1, p[1], a), NodeGet(graph2, p[2], a) >> ] ] ]

\* Faulty variant: ProductEdge without the test on the second components.
ProductEdgeMutNoInj(graph1, graph2, p, q) ==
    LET both_edge    == has_edge(graph1, p[1], q[1]) /\ has_edge(graph2, p[2], q[2])
        neither_edge == ~has_edge(graph1, p[1], q[1]) /\ ~has_edge(graph2, p[2], q[2])
    IN  p[1] # q[1] /\ (both_edge \/ neither_edge)

\* Faulty variant: ProductEdge joining on exactly one source edge (xor).
ProductEdgeMutXor(graph1, graph2, p, q) ==
    LET g1e == has_edge(graph1, p[1], q[1])
        g2e == has_edge(graph2, p[2], q[2])
    IN  p[1] # q[1] /\ p[2] # q[2] /\ (g1e # g2e)

\* The condition under which two product nodes p and q are joined: distinct
\* first components, distinct second components, and both or neither of
\* the source edges present.
ProductEdge(graph1, graph2, p, q) ==
    LET both_edge    == has_edge(graph1, p[1], q[1]) /\ has_edge(graph2, p[2], q[2])
        neither_edge == ~has_edge(graph1, p[1], q[1]) /\ ~has_edge(graph2, p[2], q[2])
    IN  p[1] # q[1] /\ p[2] # q[2] /\ (both_edge \/ neither_edge)

\* The loop over itertools.combinations(product.nodes(), 2) that adds the
\* edges of a product graph.
ProductEdges(graph1, graph2, nodes) ==
    { e \in SUBSET nodes :
        /\ Cardinality(e) = 2
        /\ \E p, q \in e : p # q /\ ProductEdge(graph1, graph2, p, q) }

categorical_modular_product(graph1, graph2, attributes) ==
    LET product == categorical_cartesian_product(graph1, graph2, attributes)
    IN  [ product EXCEPT !.edges = ProductEdges(graph1, graph2, product.nodes) ]

--------------------------------------------------------------------------
(* Maximal cliques (networkx.find_cliques) and utils.maxes *)

PNeighbors(PG, v) == { u \in PG.nodes : u # v /\ {u, v} \in PG.edges }

RECURSIVE BronKerbosch(_, _, _, _)
\* The maximal cliques that extend R by nodes of P and by no node of X, as
\* the sequence in which the search yields them.
BronKerbosch(PG, R, P, X) ==
    IF P = {} THEN (IF X = {} THEN << R >> ELSE << >>)
    ELSE LET v == CHOOSE u \in P : TRUE
         IN  BronKerbosch(PG, R \cup {v}, P \cap PNeighbors(PG, v), X \cap PNeighbors(PG, v))
             \o BronKerbosch(PG, R, P \ {v}, X \cup {v})

\* nx.find_cliques: every maximal clique once; nothing for a graph without
\* nodes.
find_cliques(PG) ==
    IF PG.nodes = {} THEN << >> ELSE BronKerbosch(PG, {}, PG.nodes, {})

MaxLen(seq) == CHOOSE n \in { Cardinality(seq[i]) : i \in DOMAIN seq } :
                   \A i \in DOMAIN seq : Cardinality(seq[i]) <= n

\* maxes(iterable, key=len): the items of largest length, in their order.
maxes(seq) ==
    IF seq = << >> THEN << >>
    ELSE SelectSeq(seq, LAMBDA c : Cardinality(c) = MaxLen(seq))

\* dict(clique) for a clique of <<key, value>> pairs.
DictOf(clique) ==
    [ k \in { p[1] : p \in clique } |-> CHOOSE v \in { p[2] : p \in clique } : <<k, v>> \in clique ]

\* Faulty variant: every maximal clique is returned, without maxes.
categorical_maximum_common_subgraphMutNoMaxes(graph1, graph2, attributes) ==
    LET cliques == find_cliques(categorical_modular_product(graph1, graph2, attributes))
    IN  [ i \in DOMAIN cliques |-> DictOf(cliques[i]) ]

categorical_maximum_common_subgraph(graph1, graph2, attributes) ==
    LET product == categorical_modular_product(graph1, graph2, attributes)
        cliques == find_cliques(product)
        largest == maxes(cliques)
    IN  [ i \in DOMAIN largest |-> DictOf(largest[i]) ]

--------------------------------------------------------------------------
(* The degree-aware two-phase maximum common subgraph *)

\* The first product graph: the attribute-compatible pairs of nodes that
\* both have a degree other than 1.
HeavyProduct(graph1, graph2, attributes) ==
    LET nodes == { p \in graph1.nodes \X graph2.nodes :
                     /\ AttrCompatible(graph1, p[1], graph2, p[2], attributes)
                     /\ degree(graph1, p[1]) # 1
                     /\ degree(graph2, p[2]) # 1 }
    IN  [ nodes |-> nodes, edges |-> ProductEdges(graph1, graph2, nodes) ]

\* itertools.chain([[]], cliques): the empty candidate, then every maximal
\* clique of the first product graph.
HeavyCandidates(graph1, graph2, attributes) ==
    << {} >> \o find_cliques(HeavyProduct(graph1, graph2, attributes))

\* Faulty variant: both nodes of the pair must have a degree of at most 1.
LeafPairAdmittedMutBoth(graph1, graph2, attributes, match, g1_node, g2_node) ==
    /\ (degree(graph1, g1_node) <= 1 /\ degree(graph2, g2_node) <= 1)
    /\ AttrCompatible(graph1, g1_node, graph2, g2_node, attributes)
    /\ LET nbrs1 == neighbors(graph1, g1_node)
           g1_neighbors == { match[n] : n \in nbrs1 \cap DOMAIN match }
           has_None == \E n \in nbrs1 : n \notin DOMAIN match
       IN  \/ nbrs1 = {}
           \/ has_None
           \/ \E n \in neighbors(graph2, g2_node) : n \in g1_neighbors

\* Faulty variant: the attributes of the pair are not compared.
LeafPairAdmittedMutNoAttr(graph1, graph2, attributes, match, g1_node, g2_node) ==
    /\ (degree(graph1, g1_node) <= 1 \/ degree(graph2, g2_node) <= 1)
    /\ LET nbrs1 == neighbors(graph1, g1_node)
           g1_neighbors == { match[n] : n \in nbrs1 \cap DOMAIN match }
           has_None == \E n \in nbrs1 : n \notin DOMAIN match
       IN  \/ nbrs1 = {}
           \/ has_None
           \/ \E n \in neighbors(graph2, g2_node) : n \in g1_neighbors

\* The test on a pair of nodes that decides whether it joins the product
\* graph of the candidate whose dict is match.
LeafPairAdmitted(graph1, graph2, attributes, match, g1_node, g2_node) ==
    /\ (degree(graph1, g1_node) <= 1 \/ degree(graph2, g2_node) <= 1)
    /\ AttrCompatible(graph1, g1_node, graph2, g2_node, attributes)
    /\ LET nbrs1 == neighbors(graph1, g1_node)
           \* [match.get(n, None) for n in graph1.neighbors(g1_node)]
           g1_neighbors == { match[n] : n \in nbrs1 \cap DOMAIN match }
           has_None == \E n \in nbrs1 : n \notin DOMAIN match
       IN  \/ nbrs1 = {}
           \/ has_None
           \/ \E n \in neighbors(graph2, g2_node) : n \in g1_neighbors

\* The product graph built for one candidate clique.
CandidateProduct(graph1, graph2, attributes, clique) ==
    LET match == DictOf(clique)
        nodes == clique \cup
                 { p \in graph1.nodes \X graph2.nodes :
                     LeafPairAdmitted(graph1, graph2, attributes, match, p[1], p[2]) }
    IN  [ nodes |-> nodes, edges |-> ProductEdges(graph1, graph2, nodes) ]

\* all_cliques: for every candidate, the maximal cliques of its product
\* graph.
AllCliques(graph1, graph2, attributes) ==
    LET largest == HeavyCandidates(graph1, graph2, attributes)
    IN  [ i \in DOMAIN largest |->
            find_cliques(CandidateProduct(graph1, graph2, attributes, largest[i])) ]

\* Faulty variant: duplicates are kept.
RemoveDuplicatesKeep(seq) == seq

\* set(frozenset(m) for m in largest): each node set once.  The order of a
\* Python set is not specified; the first occurrences are kept in order.
RemoveDuplicates(seq) ==
    LET keep == { i \in DOMAIN seq : \A j \in 1..(i - 1) : seq[j] # seq[i] }
    IN  [ k \in 1..Cardinality(keep) |->
            seq[CHOOSE i \in keep : Cardinality({ j \in keep : j <= i }) = k] ]

maximum_common_subgraph(graph1, graph2, attributes) ==
    LET all_cliques == AllCliques(graph1, graph2, attributes)
        largest     == maxes(Flatten(all_cliques))
        matches     == RemoveDuplicates(largest)
    IN  [ i \in DOMAIN matches |-> DictOf(matches[i]) ]

--------------------------------------------------------------------------
(* ElementGraphMatcher: the VF2 search of networkx.isomorphism.GraphMatcher *)
(* with test = 'subgraph', as ElementGraphMatcher configures it.  The       *)
(* matcher state is [core_1, core_2, inout_1, inout_2]; inout_1 and         *)
(* inout_2 are kept as the sets of their keys: the depth stored with a key  *)
(* only serves GMState.restore, which removes what GMState.__init__ added.  *)

\* GraphMatcher.initialize (run once, by ElementGraphMatcher.__init__).
GMInitial ==
    [ core_1 |-> EmptyMap, core_2 |-> EmptyMap, inout_1 |-> {}, inout_2 |-> {} ]

\* GraphMatcher.candidate_pairs_iter, as in the networkx releases that still
\* have Graph.node (2.0 to 2.3): the terminal sets are collected by
\* iterating over the node sets.
candidate_pairs_iter(G1, G2, st) ==
    LET T1_inout == SortedSeq({ n \in G1.nodes : n \in st.inout_1 /\ n \notin DOMAIN st.core_1 })
        T2_inout == { n \in G2.nodes : n \in st.inout_2 /\ n \notin DOMAIN st.core_2 }
    IN  IF T1_inout # << >> /\ T2_inout # {}
        THEN [ i \in DOMAIN T1_inout |-> << T1_inout[i], Min(T2_inout) >> ]
        ELSE LET other_node == Min(G2.nodes \ DOMAIN st.core_2)
                 free       == SortedSeq(G1.nodes \ DOMAIN st.core_1)
             IN  [ i \in DOMAIN free |-> << free[i], other_node >> ]

\* Faulty variant: the look-ahead of test = 'graph' (equal counts).
syntactic_feasibilityMutGraphTest(G1, G2, st, G1_node, G2_node) ==
    /\ \A neighbor \in neighbors(G1, G1_node) :
          neighbor \in DOMAIN st.core_1 => st.core_1[neighbor] \in neighbors(G2, G2_node)
    /\ \A neighbor \in neighbors(G2, G2_node) :
          neighbor \in DOMAIN st.core_2 => st.core_2[neighbor] \in neighbors(G1, G1_node)
    /\ Cardinality({ n \in neighbors(G1, G1_node) :
                       n \in st.inout_1 /\ n \notin DOMAIN st.core_1 })
         = Cardinality({ n \in neighbors(G2, G2_node) :
                           n \in st.inout_2 /\ n \notin DOMAIN st.core_2 })
    /\ Cardinality({ n \in neighbors(G1, G1_node) : n \notin st.inout_1 })
         = Cardinality({ n \in neighbors(G2, G2_node) : n \notin st.inout_2 })

\* GraphMatcher.syntactic_feasibility for graphs without self-loops and
\* parallel edges, test = 'subgraph'.
syntactic_feasibility(G1, G2, st, G1_node, G2_node) ==
    \* R_neighbor
    /\ \A neighbor \in neighbors(G1, G1_node) :
          neighbor \in DOMAIN st.core_1 => st.core_1[neighbor] \in neighbors(G2, G2_node)
    /\ \A neighbor \in neighbors(G2, G2_node) :
          neighbor \in DOMAIN st.core_2 => st.core_2[neighbor] \in neighbors(G1, G1_node)
    \* R_terminout
    /\ Cardinality({ n \in neighbors(G1, G1_node) :
                       n \in st.inout_1 /\ n \notin DOMAIN st.core_1 })
         >= Cardinality({ n \in neighbors(G2, G2_node) :
                            n \in st.inout_2 /\ n \notin DOMAIN st.core_2 })
    \* R_new
    /\ Cardinality({ n \in neighbors(G1, G1_node) : n \notin st.inout_1 })
         >= Cardinality({ n \in neighbors(G2, G2_node) : n \notin st.inout_2 })

\* Faulty variant: every pair of nodes is compatible.
semantic_feasibilityMutTrue(G1, G2, node1, node2) == TRUE

\* Faulty variant: the comparison inverted.
semantic_feasibilityMutInverted(G1, G2, node1, node2) ==
    G1.element[node1] # G2.element[node2]

\* ElementGraphMatcher.semantic_feasibility
semantic_feasibility(G1, G2, node1, node2) ==
    G1.element[node1] = G2.element[node2]

\* GMState.__init__(GM, G1_node, G2_node): the state with the pair added.
GMStateNew(G1, G2, st, G1_node, G2_node) ==
    LET core_1 == MapPut(st.core_1, G1_node, G2_node)
        core_2 == MapPut(st.core_2, G2_node, G1_node)
        new_1  == { n \in G1.nodes : n \notin DOMAIN core_1
                                     /\ \E c \in DOMAIN core_1 : has_edge(G1, c, n) }
        new_2  == { n \in G2.nodes : n \notin DOMAIN core_2
                                     /\ \E c \in DOMAIN core_2 : has_edge(G2, c, n) }
    IN  [ core_1  |-> core_1,
          core_2  |-> core_2,
          inout_1 |-> st.inout_1 \cup {G1_node} \cup new_1,
          inout_2 |-> st.inout_2 \cup {G2_node} \cup new_2 ]

RECURSIVE GMmatch(_, _, _)
\* GraphMatcher.match: the mappings in the order the generator yields them.
\* GMState.restore undoes exactly what GMState.__init__ did, so a sibling
\* candidate starts from st again.
GMmatch(G1, G2, st) ==
    IF Cardinality(DOMAIN st.core_1) = Cardinality(G2.nodes)
    THEN << st.core_1 >>
    ELSE LET cands == candidate_pairs_iter(G1, G2, st)
         IN  Flatten([ i \in DOMAIN cands |->
                 IF /\ syntactic_feasibility(G1, G2, st, cands[i][1], cands[i][2])
                    /\ semantic_feasibility(G1, G2, cands[i][1], cands[i][2])
                 THEN GMmatch(G1, G2, GMStateNew(G1, G2, st, cands[i][1], cands[i][2]))
                 ELSE << >> ])

\* ElementGraphMatcher(G1, G2).subgraph_isomorphisms_iter()
subgraph_isomorphisms_iter(G1, G2) == GMmatch(G1, G2, GMInitial)

\* The same search after core_1 and core_2 were overwritten with a seed
\* (isomorphism sets GM_large.core_1 / core_2; inout_1 and inout_2 keep
\* their initial, empty value since initialize() is a no-op).
seeded_isomorphisms_iter(G1, G2, match, reverse_match) ==
    GMmatch(G1, G2, [ GMInitial EXCEPT !.core_1 = match, !.core_2 = reverse_match ])

--------------------------------------------------------------------------
(* rate_match and isomorphism *)

\* Faulty variant: the entries with different names are counted.
rate_matchMutMismatches(residue, bead, match) ==
    Cardinality({ rdx \in DOMAIN match :
                    NodeGet(residue, rdx, "atomname") # NodeGet(bead, match[rdx], "atomname") })

\* The number of entries of match whose two nodes have the same atomname
\* (node.get('atomname'): a missing name compares as None).
rate_match(residue, bead, match) ==
    Cardinality({ rdx \in DOMAIN match :
                    NodeGet(residue, rdx, "atomname") = NodeGet(bead, match[rdx], "atomname") })

\* H_idxs = [idx for idx in residue if residue.degree(idx) == 1]
H_idxs(residue) == SortedSeq({ idx \in residue.nodes : degree(residue, idx) = 1 })

\* heavy_res: a copy of residue without the nodes of degree 1.
heavy_res(residue) ==
    InducedSubgraph(residue, { idx \in residue.nodes : degree(residue, idx) # 1 })

\* Faulty variant: ExtendLeaf without the comparison of the elements.
ExtendLeafMutNoElement(reference, residue, seed, res_H_idx) ==
    LET res_neighbor == CHOOSE n \in neighbors(residue, res_H_idx) : TRUE
    IN  IF res_neighbor \notin DOMAIN seed.reverse_match THEN seed
        ELSE
        LET ref_neighbor == seed.reverse_match[res_neighbor]
            named == { idx \in neighbors(reference, ref_neighbor) :
                         /\ degree(reference, idx) = 1
                         /\ reference.atomname[idx] = residue.atomname[res_H_idx] }
        IN  IF Cardinality(named) # 1 THEN seed
            ELSE
            LET ref_H_idx == CHOOSE idx \in named : TRUE
            IN  IF ref_H_idx \notin DOMAIN seed.match
                THEN [ match         |-> MapPut(seed.match, ref_H_idx, res_H_idx),
                       reverse_match |-> MapPut(seed.reverse_match, res_H_idx, ref_H_idx) ]
                ELSE seed

\* One pass of the loop body over res_H_idx: the seed [match, reverse_match]
\* after the leaf res_H_idx was considered.
ExtendLeaf(reference, residue, seed, res_H_idx) ==
    LET res_neighbor == CHOOSE n \in neighbors(residue, res_H_idx) : TRUE
    IN  IF res_neighbor \notin DOMAIN seed.reverse_match THEN seed
        ELSE
        LET ref_neighbor == seed.reverse_match[res_neighbor]
            res_H_name   == residue.atomname[res_H_idx]
            \* H_names[res_H_name]
            named == { idx \in neighbors(reference, ref_neighbor) :
                         /\ degree(reference, idx) = 1
                         /\ reference.atomname[idx] = res_H_name }
        IN  IF Cardinality(named) # 1 THEN seed
            ELSE
            LET ref_H_idx == CHOOSE idx \in named : TRUE
            IN  IF /\ ref_H_idx \notin DOMAIN seed.match
                   /\ reference.element[ref_H_idx] = residue.element[res_H_idx]
                THEN [ match         |-> MapPut(seed.match, ref_H_idx, res_H_idx),
                       reverse_match |-> MapPut(seed.reverse_match, res_H_idx, ref_H_idx) ]
                ELSE seed

RECURSIVE ExtendLeaves(_, _, _, _)
\* for res_H_idx in H_idxs: ...
ExtendLeaves(reference, residue, seed, idxs) ==
    IF idxs = << >> THEN seed
    ELSE ExtendLeaves(reference, residue,
                      ExtendLeaf(reference, residue, seed, Head(idxs)), Tail(idxs))

\* reverse_match = {v: k for k, v in match.items()}
Reverse(match) ==
    [ v \in { match[k] : k \in DOMAIN match } |-> CHOOSE k \in DOMAIN match : match[k] = v ]

\* The seed of one heavy embedding after the name-based leaf extension.
SeedOf(reference, residue, match) ==
    ExtendLeaves(reference, residue,
                 [ match |-> match, reverse_match |-> Reverse(match) ],
                 H_idxs(residue))

\* Faulty variant: every completion is kept, also for a non-empty seed.
CompletionsMutAll(reference, residue, match) ==
    LET seed == SeedOf(reference, residue, match)
    IN  seeded_isomorphisms_iter(reference, residue, seed.match, seed.reverse_match)

\* Faulty variant: the seed itself is returned, without the seeded search.
CompletionsMutSeedOnly(reference, residue, match) ==
    << SeedOf(reference, residue, match).match >>

\* What one heavy embedding contributes to matches: the first completion of
\* the seeded search when the seed is not empty, all of them otherwise.
Completions(reference, residue, match) ==
    LET seed    == SeedOf(reference, residue, match)
        outcome == seeded_isomorphisms_iter(reference, residue, seed.match, seed.reverse_match)
    IN  IF seed.match # EmptyMap
        THEN SubSeq(outcome, 1, IF Len(outcome) >= 1 THEN 1 ELSE 0)
        ELSE outcome

first_matches(reference, residue) ==
    subgraph_isomorphisms_iter(reference, heavy_res(residue))

RECURSIVE InsertByRateMutAscending(_, _, _, _)
\* Faulty variant: the lowest rate comes first.
InsertByRateMutAscending(reference, residue, sorted, m) ==
    IF sorted = << >> THEN << m >>
    ELSE IF rate_match(reference, residue, Head(sorted)) <= rate_match(reference, residue, m)
         THEN << Head(sorted) >> \o InsertByRateMutAscending(reference, residue, Tail(sorted), m)
         ELSE << m >> \o sorted

RECURSIVE InsertByRate(_, _, _, _)
\* m inserted into a sequence that is sorted by descending rate, after the
\* items that rate at least as high (a stable sort with reverse=True).
InsertByRate(reference, residue, sorted, m) ==
    IF sorted = << >> THEN << m >>
    ELSE IF rate_match(reference, residue, Head(sorted)) >= rate_match(reference, residue, m)
         THEN << Head(sorted) >> \o InsertByRate(reference, residue, Tail(sorted), m)
         ELSE << m >> \o sorted

RECURSIVE SortedByRate(_, _, _, _)
\* sorted(matches, key=lambda m: rate_match(reference, residue, m), reverse=True)
SortedByRate(reference, residue, matches, acc) ==
    IF matches = << >> THEN acc
    ELSE SortedByRate(reference, residue, Tail(matches),
                      InsertByRate(reference, residue, acc, Head(matches)))

\* matches before the final sort.
CollectedMatches(reference, residue) ==
    LET firsts == first_matches(reference, residue)
    IN  Flatten([ i \in DOMAIN firsts |-> Completions(reference, residue, firsts[i]) ])

isomorphism(reference, residue) ==
    SortedByRate(reference, residue, CollectedMatches(reference, residue), << >>)

--------------------------------------------------------------------------
(* blockmodel and make_residue_graph *)

\* The largest number of partitions handed to blockmodel.
MaxBlocks == 3

\* The values of the weight attribute of an edge.
Weights == {1, 2}

\* The weight entry of the attribute dict of an edge: << w >> for
\* {'weight': w}, << >> for an edge without weight.
WeightEntries == { << >> } \cup { << w >> : w \in Weights }

\* G.subgraph(idxs): the nodes of idxs that are in G, and the edges of G
\* between them.
Subgraph(G, idxs) ==
    [ nodes |-> G.nodes \cap idxs,
      edges |-> { e \in G.edges : e \subseteq idxs } ]

\* nx.density of an undirected graph, as << numerator, denominator >>.
Density(bd) ==
    LET n == Cardinality(bd.nodes)
        m == Cardinality(bd.edges)
    IN  IF m = 0 \/ n <= 1 THEN << 0, 1 >> ELSE << 2 * m, n * (n - 1) >>

\* Faulty variant: an edge without weight counts as 0.
EdgeWeightMutZero(G, e) == IF G.weight[e] = << >> THEN 0 ELSE G.weight[e][1]

\* d.get('weight', 1.0)
EdgeWeight(G, e) == IF G.weight[e] = << >> THEN 1 ELSE G.weight[e][1]

\* block_mapping: every node of a block is mapped to its block; a node in
\* several blocks is mapped to the last of them (dict.update).
BlockMapping(blocks, graph) ==
    [ u \in UNION { graph[n].nodes : n \in blocks } |->
        CHOOSE n \in blocks :
            /\ u \in graph[n].nodes
            /\ \A k \in blocks : u \in graph[k].nodes => k <= n ]

\* The edges of G that are merged into the edge {bmu, bmv} of CG_mol.
MergedEdges(G, block_mapping, be) ==
    { e \in G.edges :
        /\ e \subseteq DOMAIN block_mapping
        /\ { block_mapping[u] : u \in e } = be }

RECURSIVE SumWeights(_, _)
\* weight=weight for the first edge, 'weight' += weight for the others.
SumWeights(G, es) ==
    IF es = {} THEN 0
    ELSE LET e == CHOOSE x \in es : TRUE
         IN  EdgeWeight(G, e) + SumWeights(G, es \ {e})

\* No keyword attributes.
NoAttrs == << >>

\* blockmodel(G, partitions, **attrs): attrs maps every keyword to its
\* list of values; the new nodes are numbered from 0.
blockmodel(G, parts, attrs) ==
    LET blocks == 0..(Len(parts) - 1)
        graph  == [ bead_idx \in blocks |-> Subgraph(G, parts[bead_idx + 1]) ]
        block_mapping == BlockMapping(blocks, graph)
        \* no self loops: bmu == bmv is skipped
        edges  == { be \in { { block_mapping[u] : u \in e } :
                             e \in { x \in G.edges : x \subseteq DOMAIN block_mapping } } :
                      Cardinality(be) = 2 }
    IN  [ nodes   |-> blocks,
          edges   |-> edges,
          weight  |-> [ be \in edges |-> SumWeights(G, MergedEdges(G, block_mapping, be)) ],
          graph   |-> graph,
          nnodes  |-> [ n \in blocks |-> Cardinality(graph[n].nodes) ],
          nedges  |-> [ n \in blocks |-> Cardinality(graph[n].edges) ],
          density |-> [ n \in blocks |-> Density(graph[n]) ],
          attrs   |-> [ n \in blocks |-> [ k \in DOMAIN attrs |-> attrs[k][n + 1] ] ] ]

\* The values of the chain, resid and resname attributes of the atoms.
Chains == {"A", "B"}

Resids == {1, 2}

Resnames == {"ALA", "GLY"}

\* The attribute values that are strings, in the order of Python's string
\* comparison.
StringsInOrder == << "A", "ALA", "B", "GLY" >>

\* a < b for two strings.
StrLess(a, b) ==
    \E i, j \in DOMAIN StringsInOrder :
        StringsInOrder[i] = a /\ StringsInOrder[j] = b /\ i < j

\* keyfunc(node_idx): the tuple (chain, resid, resname).
keyfunc(mol, node_idx) ==
    << mol.chain[node_idx], mol.resid[node_idx], mol.resname[node_idx] >>

\* k1 < k2 for two such tuples (lexicographic).
KeyLess(k1, k2) ==
    \/ StrLess(k1[1], k2[1])
    \/ k1[1] = k2[1] /\ k1[2] < k2[2]
    \/ k1[1] = k2[1] /\ k1[2] = k2[2] /\ StrLess(k1[3], k2[3])

RECURSIVE InsertByKey(_, _, _)
\* idx inserted into a sequence sorted by key, after the nodes whose key is
\* not larger (a stable sort).
InsertByKey(mol, sorted, idx) ==
    IF sorted = << >> THEN << idx >>
    ELSE IF KeyLess(keyfunc(mol, idx), keyfunc(mol, Head(sorted)))
         THEN << idx >> \o sorted
         ELSE << Head(sorted) >> \o InsertByKey(mol, Tail(sorted), idx)

RECURSIVE SortByKey(_, _, _)
SortByKey(mol, idxs, acc) ==
    IF idxs = << >> THEN acc
    ELSE SortByKey(mol, Tail(idxs), InsertByKey(mol, acc, Head(idxs)))

\* Faulty variant: the nodes are grouped in the order of the graph.
SortedNodesMutUnsorted(mol) == SortedSeq(mol.nodes)

\* nodes = sorted(mol.node, key=keyfunc)
SortedNodes(mol) == SortByKey(mol, SortedSeq(mol.nodes), << >>)

RECURSIVE GroupBy(_, _, _)
\* itertools.groupby(nodes, keyfunc): the runs of consecutive nodes with
\* the same key, as records [key, grp].
GroupBy(mol, nodes, acc) ==
    IF nodes = << >> THEN acc
    ELSE LET idx == Head(nodes)
             key == keyfunc(mol, idx)
         IN  IF acc # << >> /\ acc[Len(acc)].key = key
             THEN GroupBy(mol, Tail(nodes),
                          [ acc EXCEPT ![Len(acc)].grp = Append(@, idx) ])
             ELSE GroupBy(mol, Tail(nodes),
                          Append(acc, [ key |-> key, grp |-> << idx >> ]))

\* The KeyError of keyfunc for the first node that lacks a part of the
\* key, << >> if there is none.  keyfunc reads chain, resid and resname in
\* this order; a node of the molecules drawn here that has a chain has a
\* resid as well.
KeyMissing(mol) ==
    LET missing == { idx \in mol.nodes :
                       mol.chain[idx] = Absent \/ mol.resname[idx] = Absent }
        first   == Min(missing)
    IN  IF missing = {} THEN NotRaised
        ELSE << "KeyError", IF mol.chain[first] = Absent THEN "chain" ELSE "resname", first >>

\* make_residue_graph(mol) for a molecule whose nodes all have a key.
make_residue_graph(mol) ==
    LET groups   == GroupBy(mol, SortedNodes(mol), << >>)
        keys     == [ i \in DOMAIN groups |-> groups[i].key ]
        grps     == [ i \in DOMAIN groups |-> Range(groups[i].grp) ]
        chain    == [ i \in DOMAIN keys |-> keys[i][1] ]
        resids   == [ i \in DOMAIN keys |-> keys[i][2] ]
        resnames == [ i \in DOMAIN keys |-> keys[i][3] ]
    IN  blockmodel(mol, grps,
                   [ chain |-> chain, resid |-> resids,
                     resname |-> resnames, atomname |-> resnames ])

--------------------------------------------------------------------------
(* add_element_attr *)

\* The atom names of the molecules handed to add_element_attr.
AtomNames == {"C1", "1H", "12"}

\* The characters of an atom name.
Characters(atomname) ==
    CASE atomname = "C1" -> << "C", "1" >>
      [] atomname = "1H" -> << "1", "H" >>
      [] atomname = "12" -> << "1", "2" >>

\* str.isalpha of one character.
IsAlpha(c) == c \in {"C", "H"}

\* Whether first_alpha finds an alphabetic character in the name.
HasAlpha(atomname) ==
    \E i \in DOMAIN Characters(atomname) : IsAlpha(Characters(atomname)[i])

\* first_alpha(atomname): the first alphabetic character of the name.
first_alpha(atomname) ==
    LET chars == Characters(atomname)
        i     == Min({ k \in DOMAIN chars : IsAlpha(chars[k]) })
    IN  chars[i]

\* Faulty variant: a node that has an element is given a new one too.
NeedsElementMutAlways(mol, node_idx) == TRUE

\* 'element' not in node
NeedsElement(mol, node_idx) == mol.element[node_idx] = Absent

RECURSIVE AddElementLoop(_, _)
\* for node_idx in molecule: ...  The molecule is changed in place node by
\* node; the result is the molecule when the loop ends and the exception
\* that ended it, if any.
AddElementLoop(mol, idxs) ==
    IF idxs = << >> THEN [ molecule |-> mol, raised |-> NotRaised ]
    ELSE LET node_idx == Head(idxs)
         IN  IF ~NeedsElement(mol, node_idx)
             THEN AddElementLoop(mol, Tail(idxs))
             ELSE IF mol.atomname[node_idx] = Absent
             THEN [ molecule |-> mol,
                    raised   |-> << "ValueError", "the node has no atom name", node_idx >> ]
             ELSE IF ~HasAlpha(mol.atomname[node_idx])
             THEN [ molecule |-> mol,
                    raised   |-> << "ValueError",
                                    "the atom name has no alphabetic charater", node_idx >> ]
             ELSE AddElementLoop(
                      [ mol EXCEPT !.element[node_idx] = first_alpha(mol.atomname[node_idx]) ],
                      Tail(idxs))

add_element_attr(mol) == AddElementLoop(mol, SortedSeq(mol.nodes))

--------------------------------------------------------------------------
(* The state machine: the arguments of one operation are drawn, then the   *)
(* operation is called on them and its result recorded.                    *)

\* graph1, graph2, attributes: the arguments of the matching operations;
\* matches, product: their results; pc: the operation that was called.
VARIABLES graph1, graph2, attributes, pc, matches, product

\* match: the third argument of rate_match; score: its result.
VARIABLES match, score

\* molecule, partitions: the arguments of add_element_attr, blockmodel and
\* make_residue_graph; CG_mol: the graph they return; raised: the exception
\* that ended the call.
VARIABLES molecule, partitions, CG_mol, raised

\* A BipolarFormatter: its cutoff, the effective level of its logger and
\* the formatter the last attribute lookup was delegated to.
VARIABLES cutoff, loglevel, delegate

rateVars == << match, score >>

molVars == << molecule, partitions, CG_mol, raised >>

logVars == << cutoff, loglevel, delegate >>

vars == << graph1, graph2, attributes, pc, matches, product,
           rateVars, molVars, logVars >>

PairsOf(N) == { e \in SUBSET N : Cardinality(e) = 2 }

\* The graphs on the node set N with elements from Els and atom names from
\* Nms.
GraphsOn(N, Els, Nms) ==
    { [ nodes |-> N, edges |-> E, element |-> el, atomname |-> an ] :
        E \in SUBSET PairsOf(N), el \in [N -> Els], an \in [N -> Nms] }

\* Graphs whose nodes all carry an element and the same atom name.
ElementGraphs == UNION { GraphsOn(N, Elements, {DefaultName}) : N \in SUBSET NodeIds }

\* Graphs whose nodes all carry an element and an atom name.
NamedGraphs == UNION { GraphsOn(N, Elements, Names) : N \in SUBSET NodeIds }

\* Graphs in which a node may lack the element key.
AttrGraphs ==
    UNION { GraphsOn(N, Elements \cup {Absent}, {DefaultName}) : N \in SUBSET NodeIds }

NoProduct == [ nodes |-> {}, edges |-> {}, attrs |-> << >> ]

\* No rate_match call: an empty match and no score.
RateIdle == match = EmptyMap /\ score = 0

\* A molecule is a record [nodes, edges, weight, element, atomname, chain,
\* resid, resname]: weight is the weight entry of every edge, the other
\* fields are node attributes; Absent stands for a missing key.
NoMolecule ==
    [ nodes |-> {}, edges |-> {}, weight |-> << >>, element |-> << >>,
      atomname |-> << >>, chain |-> << >>, resid |-> << >>, resname |-> << >> ]

\* CG_mol = nx.Graph() before any node was added.
NoBlocks ==
    [ nodes |-> {}, edges |-> {}, weight |-> << >>, graph |-> << >>,
      nnodes |-> << >>, nedges |-> << >>, density |-> << >>, attrs |-> << >> ]

\* No call on a molecule.
MolIdle ==
    /\ molecule = NoMolecule
    /\ partitions = << >>
    /\ CG_mol = NoBlocks
    /\ raised = NotRaised

\* No attribute was looked up: delegate is << >>, or << item, formatter >>
\* after a lookup.
NoLookup == << >>

\* No formatter in use.
LogIdle ==
    /\ cutoff = 0
    /\ loglevel = 0
    /\ delegate = NoLookup

Init ==
    /\ graph1 \in ElementGraphs
    /\ graph2 \in ElementGraphs
    /\ attributes \in Selectors
    /\ pc = "start"
    /\ matches = << >>
    /\ product = NoProduct
    /\ RateIdle
    /\ MolIdle
    /\ LogIdle

\* The operations compare elements and atom names for equality only, so
\* the values on the smallest node of graph1 are fixed without loss of
\* generality.
InitNamed ==
    /\ graph1 \in { G \in NamedGraphs :
                      G.nodes # {} => /\ G.element[Min(G.nodes)] = "C"
                                      /\ G.atomname[Min(G.nodes)] = DefaultName }
    /\ graph2 \in NamedGraphs
    /\ attributes = << "element" >>
    /\ pc = "start"
    /\ matches = << >>
    /\ product = NoProduct
    /\ RateIdle
    /\ MolIdle
    /\ LogIdle

InitProduct ==
    /\ graph1 \in AttrGraphs
    /\ graph2 \in AttrGraphs
    /\ attributes \in Selectors
    /\ pc = "start"
    /\ matches = << >>
    /\ product = NoProduct
    /\ RateIdle
    /\ MolIdle
    /\ LogIdle

CallCategoricalModularProduct ==
    /\ pc = "start"
    /\ pc' = "categorical_modular_product"
    /\ product' = categorical_modular_product(graph1, graph2, attributes)
    /\ UNCHANGED << graph1, graph2, attributes, matches >>
    /\ UNCHANGED << rateVars, molVars, logVars >>

CallCategoricalMaximumCommonSubgraph ==
    /\ pc = "start"
    /\ pc' = "categorical_maximum_common_subgraph"
    /\ matches' = categorical_maximum_common_subgraph(graph1, graph2, attributes)
    /\ UNCHANGED << graph1, graph2, attributes, product >>
    /\ UNCHANGED << rateVars, molVars, logVars >>

CallMaximumCommonSubgraph ==
    /\ pc = "start"
    /\ pc' = "maximum_common_subgraph"
    /\ matches' = maximum_common_subgraph(graph1, graph2, attributes)
    /\ UNCHANGED << graph1, graph2, attributes, product >>
    /\ UNCHANGED << rateVars, molVars, logVars >>

\* isomorphism(reference, residue) with reference = graph1, residue = graph2.
CallIsomorphism ==
    /\ pc = "start"
    /\ pc' = "isomorphism"
    /\ matches' = isomorphism(graph1, graph2)
    /\ UNCHANGED << graph1, graph2, attributes, product >>
    /\ UNCHANGED << rateVars, molVars, logVars >>

\* Graphs for rate_match, which reads the atom names only: no edges, one
\* element, and nodes that may lack the atomname key.
RateGraphs ==
    { G \in UNION { GraphsOn(N, {"C"}, Names \cup {Absent}) : N \in SUBSET NodeIds } :
        G.edges = {} }

\* The dicts from nodes of G1 to nodes of G2.
MatchesBetween(G1, G2) == UNION { [D -> G2.nodes] : D \in SUBSET G1.nodes }

InitRate ==
    /\ graph1 \in RateGraphs
    /\ graph2 \in RateGraphs
    /\ match \in MatchesBetween(graph1, graph2)
    /\ score = 0
    /\ attributes = << >>
    /\ pc = "start"
    /\ matches = << >>
    /\ product = NoProduct
    /\ MolIdle
    /\ LogIdle

\* rate_match(residue, bead, match) with residue = graph1, bead = graph2.
CallRateMatch ==
    /\ pc = "start"
    /\ pc' = "rate_match"
    /\ score' = rate_match(graph1, graph2, match)
    /\ UNCHANGED << graph1, graph2, attributes, matches, product, match >>
    /\ UNCHANGED << molVars, logVars >>

NextRate == CallRateMatch

\* rate_match on graphs whose nodes may lack an atom name.
SpecRate == InitRate /\ [][NextRate]_vars

\* The sequences of at most n items of S.
SeqsUpTo(S, n) == UNION { [1..k -> S] : k \in 0..n }

\* A molecule without node attributes.
Bare(N, E, w) ==
    [ nodes |-> N, edges |-> E, weight |-> w,
      element  |-> [ x \in N |-> Absent ], atomname |-> [ x \in N |-> Absent ],
      chain    |-> [ x \in N |-> Absent ], resid    |-> [ x \in N |-> Absent ],
      resname  |-> [ x \in N |-> Absent ] ]

\* Graphs whose edges may carry a weight.
WeightedGraphs ==
    UNION { UNION { { Bare(N, E, w) : w \in [E -> WeightEntries] } :
                    E \in SUBSET PairsOf(N) } : N \in SUBSET NodeIds }

\* No call of a matching operation and no rate_match call.
MatchIdle ==
    /\ graph1 = [ nodes |-> {}, edges |-> {}, element |-> << >>, atomname |-> << >> ]
    /\ graph2 = graph1
    /\ attributes = << >>
    /\ matches = << >>
    /\ product = NoProduct
    /\ RateIdle

\* The partitions may overlap, be empty and name nodes that are not in G.
InitBlock ==
    /\ molecule \in WeightedGraphs
    /\ partitions \in SeqsUpTo(SUBSET NodeIds, MaxBlocks)
    /\ CG_mol = NoBlocks
    /\ raised = NotRaised
    /\ pc = "start"
    /\ MatchIdle
    /\ LogIdle

\* blockmodel(G, partitions) with G = molecule.
CallBlockmodel ==
    /\ pc = "start"
    /\ pc' = "blockmodel"
    /\ CG_mol' = blockmodel(molecule, partitions, NoAttrs)
    /\ UNCHANGED << molecule, partitions, raised >>
    /\ UNCHANGED << graph1, graph2, attributes, matches, product, rateVars, logVars >>

NextBlock == CallBlockmodel

\* blockmodel on weighted graphs.
SpecBlock == InitBlock /\ [][NextBlock]_vars

\* Atomistic graphs on the nodes N: every node has a chain and a resid and
\* may lack the resname; the edges have no weight.
ResidueMolecules(N) ==
    { [ nodes |-> N, edges |-> E, weight |-> [ e \in E |-> << >> ],
        element  |-> [ x \in N |-> Absent ],
        atomname |-> [ x \in N |-> Absent ],
        chain |-> ch, resid |-> ri, resname |-> rn ] :
      E \in SUBSET PairsOf(N), ch \in [N -> Chains], ri \in [N -> Resids],
      rn \in [N -> Resnames \cup {Absent}] }

InitResidue ==
    /\ \E N \in SUBSET NodeIds : molecule \in ResidueMolecules(N)
    /\ partitions = << >>
    /\ CG_mol = NoBlocks
    /\ raised = NotRaised
    /\ pc = "start"
    /\ MatchIdle
    /\ LogIdle

\* make_residue_graph(mol) with mol = molecule.
CallMakeResidueGraph ==
    /\ pc = "start"
    /\ pc' = "make_residue_graph"
    /\ IF KeyMissing(molecule) # NotRaised
       THEN raised' = KeyMissing(molecule) /\ CG_mol' = CG_mol
       ELSE raised' = raised /\ CG_mol' = make_residue_graph(molecule)
    /\ UNCHANGED << molecule, partitions >>
    /\ UNCHANGED << graph1, graph2, attributes, matches, product, rateVars, logVars >>

NextResidue == CallMakeResidueGraph

\* make_residue_graph on atoms with chain, resid and resname.
SpecResidue == InitResidue /\ [][NextResidue]_vars

\* Molecules on the nodes N whose nodes may lack the element, the atom
\* name or both; the edges have no weight.
ElementMolecules(N) ==
    { [ nodes |-> N, edges |-> E, weight |-> [ e \in E |-> << >> ],
        element |-> el, atomname |-> an,
        chain   |-> [ x \in N |-> Absent ],
        resid   |-> [ x \in N |-> Absent ],
        resname |-> [ x \in N |-> Absent ] ] :
      E \in SUBSET PairsOf(N), el \in [N -> Elements \cup {Absent}],
      an \in [N -> AtomNames \cup {Absent}] }

InitElement ==
    /\ \E N \in SUBSET NodeIds : molecule \in ElementMolecules(N)
    /\ partitions = << >>
    /\ CG_mol = NoBlocks
    /\ raised = NotRaised
    /\ pc = "start"
    /\ MatchIdle
    /\ LogIdle

\* add_element_attr(molecule): the molecule is updated in place.
CallAddElementAttr ==
    /\ pc = "start"
    /\ pc' = "add_element_attr"
    /\ molecule' = add_element_attr(molecule).molecule
    /\ raised' = add_element_attr(molecule).raised
    /\ UNCHANGED << partitions, CG_mol >>
    /\ UNCHANGED << graph1, graph2, attributes, matches, product, rateVars, logVars >>

NextElement == CallAddElementAttr

\* add_element_attr on molecules with missing elements and atom names.
SpecElement == InitElement /\ [][NextElement]_vars

CallCategoricalCartesianProduct ==
    /\ pc = "start"
    /\ pc' = "categorical_cartesian_product"
    /\ product' = categorical_cartesian_product(graph1, graph2, attributes)
    /\ UNCHANGED << graph1, graph2, attributes, matches >>
    /\ UNCHANGED << rateVars, molVars, logVars >>

\* The arguments of one group of operations are drawn: two graphs and a
\* selector, or a molecule without or with partitions.
InitFrame == Init \/ InitElement \/ InitResidue \/ InitBlock

NextFrame ==
    \/ CallAddElementAttr
    \/ CallCategoricalCartesianProduct
    \/ CallCategoricalModularProduct
    \/ CallCategoricalMaximumCommonSubgraph
    \/ CallMaximumCommonSubgraph
    \/ CallIsomorphism
    \/ CallRateMatch
    \/ CallBlockmodel
    \/ CallMakeResidueGraph

\* Every operation of graph_utils on caller-owned graphs.
SpecFrame == InitFrame /\ [][NextFrame]_vars

\* The numeric levels of the logging module (NOTSET .. CRITICAL), for the
\* cutoff and for logger.getEffectiveLevel().
Levels == {0, 10, 20, 30, 40, 50}

\* The attributes that are looked up on the formatter and are not found on
\* the instance itself.
Items == {"format", "formatTime", "formatException"}

\* self.detailed_formatter = low_formatter
detailed_formatter == "low_formatter"

\* self.pretty_formatter = high_formatter
pretty_formatter == "high_formatter"

\* BipolarFormatter.__getattr__: the formatter the lookup is delegated to.
getattr_delegate(level, cut) ==
    IF level > cut THEN pretty_formatter ELSE detailed_formatter

\* A BipolarFormatter(low_formatter, high_formatter, cutoff, logger).
InitLog ==
    /\ cutoff \in Levels
    /\ loglevel \in Levels
    /\ delegate = NoLookup
    /\ pc = "start"
    /\ MatchIdle
    /\ MolIdle

\* logger.setLevel(level): the effective level of the logger changes.
SetLevel ==
    /\ \E level \in Levels : loglevel' = level
    /\ pc' = "setLevel"
    /\ UNCHANGED << cutoff, delegate >>
    /\ UNCHANGED << graph1, graph2, attributes, matches, product, rateVars, molVars >>

\* formatter.<item>: __getattr__(item) reads the effective level and
\* delegates.
GetAttr ==
    /\ \E item \in Items : delegate' = << item, getattr_delegate(loglevel, cutoff) >>
    /\ pc' = "__getattr__"
    /\ UNCHANGED << cutoff, loglevel >>
    /\ UNCHANGED << graph1, graph2, attributes, matches, product, rateVars, molVars >>

NextLog == SetLevel \/ GetAttr

\* Attribute lookups on a BipolarFormatter while the level of its logger
\* changes.
SpecLog == InitLog /\ [][NextLog]_vars

\* Two graphs with one node more than the other inputs, all nodes with the
\* same element.  The result does not depend on the numbering of the
\* nodes, so the nodes of graph1 are numbered by descending degree without
\* loss of generality.
InitLarge ==
    /\ graph1 \in { G \in GraphsOn(1..(MaxNodes + 1), {"C"}, {DefaultName}) :
                      \A a, b \in G.nodes : a < b => degree(G, a) >= degree(G, b) }
    /\ graph2 \in GraphsOn(1..(MaxNodes + 1), {"C"}, {DefaultName})
    /\ attributes = << "element" >>
    /\ pc = "start"
    /\ matches = << >>
    /\ product = NoProduct
    /\ RateIdle
    /\ MolIdle
    /\ LogIdle

InitApprox == Init \/ InitLarge

NextApprox == CallMaximumCommonSubgraph

\* maximum_common_subgraph on the graphs of Init and on larger graphs of
\* one element.
SpecApprox == InitApprox /\ [][NextApprox]_vars

Next ==
    \/ CallCategoricalMaximumCommonSubgraph
    \/ CallMaximumCommonSubgraph
    \/ CallIsomorphism

Spec == Init /\ [][Next]_vars

NextNamed == CallIsomorphism

\* isomorphism on graphs whose atom names differ.
SpecNamed == InitNamed /\ [][NextNamed]_vars

NextProduct == CallCategoricalModularProduct

\* The product graph of graphs whose nodes may lack the selected attribute.
SpecProduct == InitProduct /\ [][NextProduct]_vars

--------------------------------------------------------------------------
(* Properties *)

MatchPairs(m) == { << k, m[k] >> : k \in DOMAIN m }

MatchValues(m) == { m[k] : k \in DOMAIN m }

Returned == pc \in { "categorical_maximum_common_subgraph",
                     "maximum_common_subgraph", "isomorphism" }

HeavyNodes(G) == { n \in G.nodes : degree(G, n) # 1 }

LeafNodes(G) == { n \in G.nodes : degree(G, n) = 1 }

\* m agrees with h on every key of h.
Extends(m, h) == \A k \in DOMAIN h : k \in DOMAIN m /\ m[k] = h[k]

\* Every embedding of res into reference as an induced subgraph with equal
\* elements, as a dict from reference nodes to res nodes.
Embeddings(reference, res) ==
    { Reverse(g) : g \in { f \in [res.nodes -> reference.nodes] :
        /\ \A a, b \in res.nodes : a # b => f[a] # f[b]
        /\ \A a \in res.nodes : reference.element[f[a]] = res.element[a]
        /\ \A a, b \in res.nodes :
              has_edge(res, a, b) <=> has_edge(reference, f[a], f[b]) } }

\* C1: every match returned by categorical_maximum_common_subgraph, by
\* maximum_common_subgraph and by isomorphism is injective: no two distinct
\* keys of a returned match map to the same value.
C1_MatchesInjective ==
    Returned =>
        \A i \in DOMAIN matches :
            \A k1, k2 \in DOMAIN matches[i] :
                k1 # k2 => matches[i][k1] # matches[i][k2]

C1_Witness ==
    /\ pc = "maximum_common_subgraph"
    /\ \E i \in DOMAIN matches : Cardinality(DOMAIN matches[i]) = MaxNodes
    /\ \E a, b \in graph2.nodes : a # b /\ graph2.element[a] = graph2.element[b]

\* R is a subgraph of G: its nodes and edges are nodes and edges of G, with
\* the same element on every node.
ExactSubgraph(R, G) ==
    /\ R.nodes \subseteq G.nodes
    /\ R.edges \subseteq G.edges
    /\ \A n \in R.nodes : R.element[n] = G.element[n]

\* R is the subgraph of G induced by the nodes of R.
InducedSubgraphOf(R, G) ==
    /\ ExactSubgraph(R, G)
    /\ \A e \in G.edges : e \subseteq R.nodes => e \in R.edges

\* At least one match is returned and every returned match has an entry for
\* every node of the residue.
CoversResidue ==
    /\ matches # << >>
    /\ \A i \in DOMAIN matches : MatchValues(matches[i]) = graph2.nodes

\* C2 as claimed: if the residue is an exact subgraph of the reference
\* (every node and edge of it is a node and edge of the reference, with
\* identical elements), isomorphism returns at least one match, which has
\* an entry for every node of the residue.
C2_ExactSubgraphMatched ==
    (pc = "isomorphism" /\ ExactSubgraph(graph2, graph1)) => CoversResidue

\* C2 amended: if the residue is an induced subgraph of the reference (an
\* exact subgraph that also has every reference edge between two of its
\* nodes), isomorphism returns at least one match, and every returned match
\* has an entry for every node of the residue.
C2_InducedSubgraphMatched ==
    (pc = "isomorphism" /\ InducedSubgraphOf(graph2, graph1)) => CoversResidue

C2_Witness ==
    /\ pc = "isomorphism"
    /\ InducedSubgraphOf(graph2, graph1)
    /\ Cardinality(graph2.nodes) = 2
    /\ graph2.edges # {}
    /\ Cardinality(graph1.edges) = 2
    /\ CoversResidue

\* No node of graph2 has the element of a node of graph1.
DisjointElements ==
    \A a \in graph1.nodes : \A b \in graph2.nodes :
        graph1.element[a] # graph2.element[b]

\* C3 as claimed: if no node of the second graph has an element equal to
\* the element of a node of the first, isomorphism and both maximum common
\* subgraph searches (with attributes = ('element',)) return an empty list.
C3_DisjointElementsEmpty ==
    ( /\ Returned
      /\ DisjointElements
      /\ (pc # "isomorphism" => attributes = << "element" >>) )
    => matches = << >>

\* C3 amended: under the same condition both maximum common subgraph
\* searches return an empty list, and isomorphism returns an empty list
\* when the residue has at least one node; for a residue without nodes it
\* returns the list that holds the empty match.
C3_DisjointElementsEmptyUnlessNoResidue ==
    ( /\ Returned
      /\ DisjointElements
      /\ (pc # "isomorphism" => attributes = << "element" >>) )
    => IF pc = "isomorphism" /\ graph2.nodes = {}
       THEN matches = << EmptyMap >>
       ELSE matches = << >>

C3_Witness ==
    /\ pc = "isomorphism"
    /\ DisjointElements
    /\ Cardinality(graph1.nodes) = MaxNodes
    /\ graph1.edges # {}
    /\ Cardinality(graph2.nodes) = 2
    /\ graph2.edges # {}
    /\ matches = << >>

\* The non-empty cliques of a product graph.
CliquesOf(PG) ==
    { S \in SUBSET PG.nodes :
        /\ S # {}
        /\ \A p, q \in S : p # q => {p, q} \in PG.edges }

\* C4: all matches returned by categorical_maximum_common_subgraph have the
\* same number of entries; each is the node set of a clique of
\* categorical_modular_product(graph1, graph2, attributes); no clique of
\* that product graph has more nodes than a returned match; and every
\* clique of that maximum size is returned.
C4_MaximumCliquesReturned ==
    pc = "categorical_maximum_common_subgraph" =>
        LET cliques  == CliquesOf(categorical_modular_product(graph1, graph2, attributes))
            returned == { MatchPairs(matches[i]) : i \in DOMAIN matches }
        IN  /\ \A i, j \in DOMAIN matches :
                  Cardinality(DOMAIN matches[i]) = Cardinality(DOMAIN matches[j])
            /\ returned \subseteq cliques
            /\ \A S \in cliques : \A R \in returned : Cardinality(S) <= Cardinality(R)
            /\ \A S \in cliques :
                  (\A T \in cliques : Cardinality(T) <= Cardinality(S)) => S \in returned

\* Several maximum cliques tie, and the product graph has a maximal clique
\* that is smaller.
C4_Witness ==
    /\ pc = "categorical_maximum_common_subgraph"
    /\ Len(matches) >= 2
    /\ Cardinality(DOMAIN matches[1]) = 2
    /\ Len(find_cliques(categorical_modular_product(graph1, graph2, attributes)))
         > Len(matches)

\* C5: categorical_modular_product returns a graph whose nodes are exactly
\* the pairs (a, b) for which every selected attribute is present on both a
\* and b with equal values, and which has an edge between (a1, b1) and
\* (a2, b2) exactly when a1 # a2, b1 # b2 and (graph1 has edge a1-a2) is
\* logically equal to (graph2 has edge b1-b2).
C5_ModularProductExact ==
    pc = "categorical_modular_product" =>
        /\ product.nodes =
             { p \in graph1.nodes \X graph2.nodes :
                 \A i \in DOMAIN attributes :
                    /\ attributes[i] \in NodeKeys(graph1, p[1])
                    /\ attributes[i] \in NodeKeys(graph2, p[2])
                    /\ NodeAttr(graph1, p[1], attributes[i])
                         = NodeAttr(graph2, p[2], attributes[i]) }
        /\ \A e \in product.edges : e \subseteq product.nodes /\ Cardinality(e) = 2
        /\ \A p, q \in product.nodes :
              ({p, q} \in product.edges /\ p # q) <=>
                  /\ p[1] # q[1]
                  /\ p[2] # q[2]
                  /\ ({p[1], q[1]} \in graph1.edges <=> {p[2], q[2]} \in graph2.edges)

\* A product with a pair left out for a missing element, a pair left out
\* for unequal elements, an edge from two present source edges and two
\* nodes that are not joined.
C5_Witness ==
    /\ pc = "categorical_modular_product"
    /\ attributes = << "element" >>
    /\ \E a \in graph1.nodes : graph1.element[a] = Absent
    /\ \E a \in graph1.nodes : \E b \in graph2.nodes :
          /\ graph1.element[a] # Absent
          /\ graph2.element[b] # Absent
          /\ graph1.element[a] # graph2.element[b]
    /\ \E p, q \in product.nodes :
          {p, q} \in product.edges /\ {p[1], q[1]} \in graph1.edges
    /\ \E p, q \in product.nodes : p # q /\ {p, q} \notin product.edges

\* C6: the matches returned by maximum_common_subgraph all have the size of
\* the largest clique found over the product graphs of all candidates
\* (every maximal clique of the heavy product graph and the empty
\* candidate); every clique of that size is returned; and no two returned
\* matches have the same set of node pairs.
C6_OverallMaximumDeduplicated ==
    pc = "maximum_common_subgraph" =>
        LET found    == Range(Flatten(AllCliques(graph1, graph2, attributes)))
            returned == { MatchPairs(matches[i]) : i \in DOMAIN matches }
        IN  /\ returned \subseteq found
            /\ \A S \in found : \A R \in returned : Cardinality(S) <= Cardinality(R)
            /\ \A S \in found :
                  (\A T \in found : Cardinality(T) <= Cardinality(S)) => S \in returned
            /\ \A i, j \in DOMAIN matches :
                  i # j => MatchPairs(matches[i]) # MatchPairs(matches[j])

\* A maximum clique is found through more than one candidate, and a
\* candidate also yields a smaller clique.
C6_Witness ==
    /\ pc = "maximum_common_subgraph"
    /\ matches # << >>
    /\ LET all == Flatten(AllCliques(graph1, graph2, attributes))
       IN  /\ \E i, j \in DOMAIN all :
                 i # j /\ all[i] = all[j] /\ all[i] = MatchPairs(matches[1])
           /\ \E i \in DOMAIN all :
                 Cardinality(all[i]) < Cardinality(DOMAIN matches[1])

\* The heavy-atom embeddings of the residue graph2 into the reference graph1.
HeavyEmbeddings == Embeddings(graph1, heavy_res(graph2))

\* The neighbour of a residue leaf.
ParentOf(L) == CHOOSE n \in neighbors(graph2, L) : TRUE

\* The degree-1 neighbours of the image of L's parent under the heavy
\* embedding h that carry the atom name of L.
NamedPartners(h, L) ==
    { idx \in neighbors(graph1, Reverse(h)[ParentOf(L)]) :
        /\ degree(graph1, idx) = 1
        /\ graph1.atomname[idx] = graph2.atomname[L] }

\* The residue leaves whose parent is mapped by h and that have no equally
\* named partner, or more than one.
SkippedLeaves(h) ==
    { L \in LeafNodes(graph2) :
        /\ ParentOf(L) \in MatchValues(h)
        /\ Cardinality(NamedPartners(h, L)) # 1 }

\* C7: for every match returned by isomorphism and every entry ref -> res
\* of it, whichever step introduced it, the element of reference node ref
\* equals the element of residue node res.
C7_MappedElementsEqual ==
    pc = "isomorphism" =>
        \A i \in DOMAIN matches :
            \A ref \in DOMAIN matches[i] :
                graph1.element[ref] = graph2.element[matches[i][ref]]

\* A returned match whose entries come from the heavy embedding, from the
\* name-based leaf extension and from the seeded completion, between graphs
\* that hold both elements.
C7_Witness ==
    /\ pc = "isomorphism"
    /\ matches # << >>
    /\ \E a, b \in graph1.nodes : graph1.element[a] # graph1.element[b]
    /\ \E h \in HeavyEmbeddings :
          LET seed == SeedOf(graph1, graph2, h).match
          IN  /\ h # EmptyMap
              /\ Cardinality(DOMAIN seed) > Cardinality(DOMAIN h)
              /\ Cardinality(DOMAIN seed) < Cardinality(graph2.nodes)
              /\ \E i \in DOMAIN matches : Extends(matches[i], seed)

\* C8 as claimed: every match returned by isomorphism(A, A) maps each node
\* of A with degree # 1 to itself.
C8_EveryMatchIdentityOnHeavy ==
    (pc = "isomorphism" /\ graph1 = graph2) =>
        \A i \in DOMAIN matches :
            \A n \in HeavyNodes(graph1) :
                n \in DOMAIN matches[i] /\ matches[i][n] = n

\* C8 amended: isomorphism(A, A) returns at least one match that maps each
\* node of A with degree # 1 to itself.
C8_SomeMatchIdentityOnHeavy ==
    (pc = "isomorphism" /\ graph1 = graph2) =>
        \E i \in DOMAIN matches :
            \A n \in HeavyNodes(graph1) :
                n \in DOMAIN matches[i] /\ matches[i][n] = n

C8_Witness ==
    /\ pc = "isomorphism"
    /\ graph1 = graph2
    /\ Cardinality(HeavyNodes(graph1)) = 2
    /\ Len(matches) = 2
    /\ \E i \in DOMAIN matches : \A n \in HeavyNodes(graph1) : matches[i][n] = n
    /\ \E i \in DOMAIN matches : \E n \in HeavyNodes(graph1) : matches[i][n] # n

\* C9 as claimed: when a residue leaf has no acceptable partner among the
\* degree-1 neighbours of its parent's image, a match for that heavy
\* embedding is still returned, with that leaf left unmapped.
C9_SkippedLeafLeftUnmapped ==
    pc = "isomorphism" =>
        \A h \in HeavyEmbeddings :
            \A L \in SkippedLeaves(h) :
                \E i \in DOMAIN matches :
                    Extends(matches[i], h) /\ L \notin MatchValues(matches[i])

\* C9 amended: a leaf without an acceptable partner is left out of the seed
\* only.  A heavy embedding yields a match exactly when it can be completed
\* to an embedding of the whole residue, and every returned match maps
\* every node of the residue, the skipped leaves included, each to a
\* neighbour of its parent's image that has its element.
C9_SkippedLeafMappedByCompletion ==
    pc = "isomorphism" =>
        /\ \A h \in HeavyEmbeddings :
              /\ \A L \in SkippedLeaves(h) :
                    L \notin MatchValues(SeedOf(graph1, graph2, h).match)
              /\ (\E f \in Embeddings(graph1, graph2) : Extends(f, h))
                    <=> (\E i \in DOMAIN matches : Extends(matches[i], h))
        /\ \A i \in DOMAIN matches :
              /\ MatchValues(matches[i]) = graph2.nodes
              /\ \A L \in LeafNodes(graph2) :
                    LET rev == Reverse(matches[i])
                    IN  /\ has_edge(graph1, rev[L], rev[ParentOf(L)])
                        /\ graph1.element[rev[L]] = graph2.element[L]

\* A heavy embedding with a skipped leaf that yields a match, and another
\* heavy embedding that cannot be completed and yields none.
C9_Witness ==
    /\ pc = "isomorphism"
    /\ \E h \in HeavyEmbeddings :
          /\ h # EmptyMap
          /\ SkippedLeaves(h) # {}
          /\ \E i \in DOMAIN matches : Extends(matches[i], h)
    /\ \E h \in HeavyEmbeddings :
          /\ SkippedLeaves(h) # {}
          /\ ~ \E i \in DOMAIN matches : Extends(matches[i], h)

\* C10: for a residue with at least one heavy node isomorphism contributes
\* at most one match per heavy-atom embedding: the number of returned
\* matches never exceeds the number of heavy embeddings and no two returned
\* matches agree on the heavy atoms (the orders of interchangeable leaves
\* are not returned as separate matches); only when the seed is empty (no
\* heavy node) are all completions returned.
C10_OneMatchPerHeavyEmbedding ==
    pc = "isomorphism" =>
        IF HeavyNodes(graph2) # {}
        THEN /\ Len(matches) <= Cardinality(HeavyEmbeddings)
             /\ \A i, j \in DOMAIN matches :
                   i # j => \E n \in HeavyNodes(graph2) :
                               Reverse(matches[i])[n] # Reverse(matches[j])[n]
        ELSE /\ Range(matches) = Embeddings(graph1, graph2)
             /\ Len(matches) = Cardinality(Embeddings(graph1, graph2))

\* One heavy embedding with two completions (the two orders of two leaves
\* of one heavy atom), of which one is returned.
C10_Witness ==
    /\ pc = "isomorphism"
    /\ Cardinality(HeavyNodes(graph2)) = 1
    /\ Cardinality(LeafNodes(graph2)) = 2
    /\ Cardinality(HeavyEmbeddings) = 1
    /\ Cardinality(Embeddings(graph1, graph2)) = 2
    /\ Len(matches) = 1


\* How often m occurs in the sequence seq.
Occurrences(seq, m) == Cardinality({ i \in DOMAIN seq : seq[i] = m })

\* C11: the list returned by isomorphism is a reordering of exactly the
\* completions collected over all heavy embeddings (every match occurs as
\* often in the result as among the completions, so ties are all kept), and
\* it is sorted best-first: the rate of a match is never lower than the
\* rate of the match after it.
C11_RankingReordersBestFirst ==
    pc = "isomorphism" =>
        LET collected == CollectedMatches(graph1, graph2)
        IN  /\ Len(matches) = Len(collected)
            /\ \A m \in Range(collected) \cup Range(matches) :
                   Occurrences(matches, m) = Occurrences(collected, m)
            /\ \A i \in 1..(Len(matches) - 1) :
                   rate_match(graph1, graph2, matches[i])
                       >= rate_match(graph1, graph2, matches[i + 1])

\* A match with three equal atom names was collected after one with a
\* single equal atom name and is returned before it, and two tied matches
\* are both returned.
C11_Witness ==
    /\ pc = "isomorphism"
    /\ LET collected == CollectedMatches(graph1, graph2)
       IN  \E i, j \in DOMAIN collected :
              /\ i < j
              /\ rate_match(graph1, graph2, collected[i]) = 1
              /\ rate_match(graph1, graph2, collected[j]) = 3
    /\ \E i, j \in DOMAIN matches :
          /\ i < j
          /\ rate_match(graph1, graph2, matches[i]) = 3
          /\ rate_match(graph1, graph2, matches[j]) = 1
    /\ \E i, j \in DOMAIN matches :
          /\ i # j
          /\ matches[i] # matches[j]
          /\ rate_match(graph1, graph2, matches[i]) = rate_match(graph1, graph2, matches[j])

RECURSIVE EqualNameEntries(_, _, _, _)
\* The number of the keys r of m, taken one by one, for which node r of
\* residue and node m[r] of bead have the same atomname; a node without
\* atomname has the name None (dict.get), which equals only itself.
EqualNameEntries(residue, bead, m, keys) ==
    IF keys = {} THEN 0
    ELSE LET r == Min(keys)
         IN  (IF residue.atomname[r] = bead.atomname[m[r]] THEN 1 ELSE 0)
                 + EqualNameEntries(residue, bead, m, keys \ {r})

\* C12: rate_match(residue, bead, match) is exactly the number of entries
\* r -> b of match for which the atomname of residue node r equals the
\* atomname of bead node b; the score lies between 0 and len(match), and
\* the score of the empty match is 0.
C12_RateCountsEqualNames ==
    pc = "rate_match" =>
        /\ score = EqualNameEntries(graph1, graph2, match, DOMAIN match)
        /\ 0 <= score
        /\ score <= Cardinality(DOMAIN match)
        /\ (match = EmptyMap => score = 0)

\* A match of three entries of which exactly two have equal names, two of
\* them mapped to the same bead node.
C12_Witness ==
    /\ pc = "rate_match"
    /\ Cardinality(DOMAIN match) = 3
    /\ score = 2
    /\ \E r1, r2 \in DOMAIN match : r1 # r2 /\ match[r1] = match[r2]
    /\ \E r \in DOMAIN match :
          /\ graph1.atomname[r] \in Names
          /\ graph2.atomname[match[r]] \in Names
          /\ graph1.atomname[r] # graph2.atomname[match[r]]

\* The partitions are pairwise disjoint.
DisjointPartitions ==
    \A i, j \in DOMAIN partitions : i # j => partitions[i] \cap partitions[j] = {}

\* The edges of G with one end in partition i and the other in partition j
\* (numbered from 0).
Crossing(G, parts, i, j) ==
    { e \in G.edges : \E u \in e \cap parts[i + 1] : \E v \in e \cap parts[j + 1] : u # v }

RECURSIVE CrossingWeight(_, _)
\* The sum of the weights of the edges es, 1 for an edge without weight.
CrossingWeight(G, es) ==
    IF es = {} THEN 0
    ELSE LET e == CHOOSE x \in es : TRUE
         IN  (IF Len(G.weight[e]) = 1 THEN G.weight[e][1] ELSE 1)
                 + CrossingWeight(G, es \ {e})

\* C13: for disjoint partitions, blocks i # j of the graph returned by
\* blockmodel are joined by an edge exactly when an edge of G has one end
\* in partition i and the other in partition j; the weight of that edge is
\* the sum of the weights of those edges of G (1 for an edge without
\* weight), so edges inside a partition or touching an uncovered node
\* contribute nothing; and there are no self-loops.
C13_BlockEdgesMergeCrossingEdges ==
    (pc = "blockmodel" /\ DisjointPartitions) =>
        /\ CG_mol.nodes = 0..(Len(partitions) - 1)
        /\ \A e \in CG_mol.edges : e \subseteq CG_mol.nodes /\ Cardinality(e) = 2
        /\ \A i, j \in CG_mol.nodes :
              i # j =>
                 /\ {i, j} \in CG_mol.edges <=> Crossing(molecule, partitions, i, j) # {}
                 /\ {i, j} \in CG_mol.edges =>
                       CG_mol.weight[{i, j}]
                           = CrossingWeight(molecule, Crossing(molecule, partitions, i, j))

\* Two blocks joined by one edge of weight 3 that merges an edge of weight
\* 2 and an edge of weight 1, next to an edge inside the first block.
C13_Witness ==
    /\ pc = "blockmodel"
    /\ DisjointPartitions
    /\ molecule.nodes = {1, 2, 3}
    /\ molecule.edges = {{1, 3}, {2, 3}, {1, 2}}
    /\ partitions = << {1, 2}, {3} >>
    /\ molecule.weight[{1, 3}] = << 2 >>
    /\ molecule.weight[{2, 3}] = << 1 >>
    /\ molecule.weight[{1, 2}] = << >>
    /\ CG_mol.edges = {{0, 1}}
    /\ CG_mol.weight[{0, 1}] = 3

\* The (chain, resid, resname) stored on node n of the residue graph.
StoredKey(n) ==
    << CG_mol.attrs[n].chain, CG_mol.attrs[n].resid, CG_mol.attrs[n].resname >>

RECURSIVE SumOver(_, _)
\* The sum of f over the set S.
SumOver(f, S) ==
    IF S = {} THEN 0
    ELSE LET x == CHOOSE y \in S : TRUE IN f[x] + SumOver(f, S \ {x})

\* C14: make_residue_graph(mol) returns a graph with exactly one node per
\* distinct (chain, resid, resname) of mol; every atom is in the subgraph
\* of exactly one residue node and the nnodes values sum to the number of
\* atoms; the atoms of a residue node share the key stored on it, with
\* atomname = resname; the residue nodes are numbered 0..n-1 in ascending
\* key order; and an empty mol gives the empty graph.
C14_OneNodePerResidueKey ==
    (pc = "make_residue_graph" /\ raised = NotRaised) =>
        LET Keys == { keyfunc(molecule, a) : a \in molecule.nodes }
        IN  /\ CG_mol.nodes = 0..(Cardinality(Keys) - 1)
            /\ { StoredKey(n) : n \in CG_mol.nodes } = Keys
            /\ \A a \in molecule.nodes :
                  Cardinality({ n \in CG_mol.nodes : a \in CG_mol.graph[n].nodes }) = 1
            /\ SumOver(CG_mol.nnodes, CG_mol.nodes) = Cardinality(molecule.nodes)
            /\ \A n \in CG_mol.nodes :
                  /\ CG_mol.graph[n].nodes \subseteq molecule.nodes
                  /\ \A a \in CG_mol.graph[n].nodes : keyfunc(molecule, a) = StoredKey(n)
                  /\ CG_mol.attrs[n].atomname = CG_mol.attrs[n].resname
                  /\ CG_mol.nnodes[n] = Cardinality(CG_mol.graph[n].nodes)
            /\ \A i, j \in CG_mol.nodes : i < j => KeyLess(StoredKey(i), StoredKey(j))
            /\ (molecule.nodes = {} => CG_mol.nodes = {} /\ CG_mol.edges = {})

\* Three atoms of two residues, the atoms of the first residue not next to
\* each other in the order of the graph, and the residue of the first atom
\* not the first residue.
C14_Witness ==
    /\ pc = "make_residue_graph"
    /\ raised = NotRaised
    /\ molecule.nodes = {1, 2, 3}
    /\ keyfunc(molecule, 1) = keyfunc(molecule, 3)
    /\ KeyLess(keyfunc(molecule, 2), keyfunc(molecule, 1))
    /\ CG_mol.nodes = {0, 1}
    /\ CG_mol.graph[0].nodes = {2}
    /\ CG_mol.graph[1].nodes = {1, 3}
    /\ CG_mol.edges = {{0, 1}}

\* Node n has no element and none can be derived from its atom name.
Underivable(mol, n) ==
    /\ mol.element[n] = Absent
    /\ mol.atomname[n] = Absent \/ ~HasAlpha(mol.atomname[n])

\* The call completed: every node has an element, its own where it had
\* one and the first alphabetic character of its atom name otherwise.
Completed(before, after) ==
    \A n \in before.nodes :
        /\ after.element[n] # Absent
        /\ before.element[n] # Absent => after.element[n] = before.element[n]
        /\ before.element[n] = Absent =>
              \E i \in DOMAIN Characters(before.atomname[n]) :
                  /\ after.element[n] = Characters(before.atomname[n])[i]
                  /\ IsAlpha(Characters(before.atomname[n])[i])
                  /\ \A j \in 1..(i - 1) : ~IsAlpha(Characters(before.atomname[n])[j])

\* C15: add_element_attr is all-or-nothing: either it completes and every
\* node has an element (derived from the first alphabetic character of the
\* atom name where it was absent, unchanged where it was present), or it
\* raises an error naming an offending node and no node of the molecule has
\* gained an element.
C15_AllOrNothing ==
    [][ pc' = "add_element_attr" =>
            \/ /\ raised' = NotRaised
               /\ Completed(molecule, molecule')
            \/ /\ raised' # NotRaised
               /\ raised'[1] = "ValueError"
               /\ raised'[3] \in molecule.nodes
               /\ Underivable(molecule, raised'[3])
               /\ molecule' = molecule ]_vars

\* after differs from before at most in the element of nodes that had no
\* element before.
OnlyElementsAdded(before, after) ==
    /\ after.nodes = before.nodes
    /\ after.edges = before.edges
    /\ after.weight = before.weight
    /\ after.atomname = before.atomname
    /\ after.chain = before.chain
    /\ after.resid = before.resid
    /\ after.resname = before.resname
    /\ \A n \in before.nodes :
          before.element[n] # Absent => after.element[n] = before.element[n]

\* C16 as stated: after any call to add_element_attr, the product and
\* common-subgraph operations, isomorphism, rate_match, blockmodel or
\* make_residue_graph, whether it returns or raises, the nodes, edges and
\* attributes of every input graph are the same as before the call.
C16_NoInputMutated ==
    [][ /\ graph1' = graph1
        /\ graph2' = graph2
        /\ molecule' = molecule ]_vars

\* C16 as amended: the same, except that add_element_attr sets the element
\* of nodes of its molecule that had none (also when it raises) and
\* changes nothing else.
C16_OnlyAddElementAttrMutates ==
    [][ /\ graph1' = graph1
        /\ graph2' = graph2
        /\ \/ molecule' = molecule
           \/ /\ pc' = "add_element_attr"
              /\ OnlyElementsAdded(molecule, molecule') ]_vars

\* add_element_attr returned on a molecule in which two nodes kept an
\* element that their atom name does not give, next to a node whose element
\* is the first letter of its atom name.
C16_Witness ==
    /\ pc = "add_element_attr"
    /\ raised = NotRaised
    /\ \E n, m \in molecule.nodes :
          /\ molecule.atomname[n] = "1H" /\ molecule.element[n] = "C"
          /\ molecule.atomname[m] = Absent /\ molecule.element[m] = "H"
    /\ \E n \in molecule.nodes :
          molecule.atomname[n] = "C1" /\ molecule.element[n] = "C"

\* C17: BipolarFormatter delegates every attribute lookup to low_formatter
\* when cutoff <= logger.getEffectiveLevel() and to high_formatter when
\* cutoff > logger.getEffectiveLevel(), with the level the logger has at
\* the time of the lookup.
C17_DelegatesAsDocumented ==
    pc = "__getattr__" =>
        delegate[2] = IF cutoff <= loglevel THEN "low_formatter" ELSE "high_formatter"

\* The heavy-clique candidates of the call, as a set of cliques.
Candidates == Range(HeavyCandidates(graph1, graph2, attributes))

\* Nodes a of graph1 and b of graph2 agree in the selected attributes:
\* every selected attribute is present on both with the same value.
Compatible(a, b) ==
    \A i \in DOMAIN attributes :
        LET v1 == NodeAttr(graph1, a, attributes[i])
            v2 == NodeAttr(graph2, b, attributes[i])
        IN  v1 # Absent /\ v2 # Absent /\ v1 = v2

\* Some neighbour of b is the image, under the dict of the clique, of a
\* neighbour of a.
MappedNeighbourAgrees(clique, a, b) ==
    \E p \in clique : has_edge(graph1, a, p[1]) /\ has_edge(graph2, b, p[2])

\* Some neighbour of a is not a key of the dict of the clique.
UnmappedNeighbour(clique, a) ==
    \E n \in graph1.nodes : has_edge(graph1, a, n) /\ \A p \in clique : p[1] # n

\* The first-phase product graph holds only compatible pairs of nodes that
\* both have a degree other than 1 (and all of them).
FirstPhaseHeavyOnly ==
    HeavyProduct(graph1, graph2, attributes).nodes =
        { p \in graph1.nodes \X graph2.nodes :
            /\ Compatible(p[1], p[2])
            /\ degree(graph1, p[1]) # 1
            /\ degree(graph2, p[2]) # 1 }

\* C18 as stated: the product graph of a heavy clique holds exactly the
\* pairs of the clique plus the compatible pairs (a, b) in which both a
\* and b have degree <= 1 and for which a mapped neighbour agrees or
\* neither node has a neighbour; no pair with a node of degree >= 2 is
\* added; and the first-phase product graph holds only compatible pairs of
\* nodes of degree # 1.
C18_LeafPairsBothDegreeAtMostOne ==
    pc = "maximum_common_subgraph" =>
        /\ FirstPhaseHeavyOnly
        /\ \A clique \in Candidates :
              LET nodes == CandidateProduct(graph1, graph2, attributes, clique).nodes
              IN  /\ nodes = clique \cup
                        { p \in graph1.nodes \X graph2.nodes :
                            /\ degree(graph1, p[1]) <= 1
                            /\ degree(graph2, p[2]) <= 1
                            /\ Compatible(p[1], p[2])
                            /\ \/ MappedNeighbourAgrees(clique, p[1], p[2])
                               \/ /\ degree(graph1, p[1]) = 0
                                  /\ degree(graph2, p[2]) = 0 }
                  /\ \A p \in nodes \ clique :
                        degree(graph1, p[1]) <= 1 /\ degree(graph2, p[2]) <= 1

\* C18 as amended: the product graph of a heavy clique holds exactly the
\* pairs of the clique plus the compatible pairs (a, b) in which at least
\* one of a and b has degree <= 1 and for which a has no neighbour, or a
\* has a neighbour that the clique does not map, or a mapped neighbour
\* agrees; a pair of two nodes of degree >= 2 is never added; and the
\* first-phase product graph holds exactly the compatible pairs of nodes
\* of degree # 1.
C18_LeafPairsOneDegreeAtMostOne ==
    pc = "maximum_common_subgraph" =>
        /\ FirstPhaseHeavyOnly
        /\ \A clique \in Candidates :
              LET nodes == CandidateProduct(graph1, graph2, attributes, clique).nodes
              IN  /\ nodes = clique \cup
                        { p \in graph1.nodes \X graph2.nodes :
                            /\ degree(graph1, p[1]) <= 1 \/ degree(graph2, p[2]) <= 1
                            /\ Compatible(p[1], p[2])
                            /\ \/ degree(graph1, p[1]) = 0
                               \/ UnmappedNeighbour(clique, p[1])
                               \/ MappedNeighbourAgrees(clique, p[1], p[2]) }
                  /\ \A p \in nodes \ clique :
                        ~(degree(graph1, p[1]) >= 2 /\ degree(graph2, p[2]) >= 2)

\* The product graph of a non-empty heavy clique gained a pair of a node
\* of degree 2 and a node of degree 1, next to a pair of two leaves whose
\* mapped neighbours agree.
C18_Witness ==
    /\ pc = "maximum_common_subgraph"
    /\ \E clique \in Candidates :
          /\ clique # {}
          /\ LET nodes == CandidateProduct(graph1, graph2, attributes, clique).nodes
             IN  /\ \E p \in nodes \ clique :
                       degree(graph1, p[1]) = 2 /\ degree(graph2, p[2]) = 1
                 /\ \E p \in nodes \ clique :
                       /\ degree(graph1, p[1]) = 1
                       /\ degree(graph2, p[2]) = 1
                       /\ MappedNeighbourAgrees(clique, p[1], p[2])

\* C19: maximum_common_subgraph is a sound under-approximation of
\* categorical_maximum_common_subgraph: every match it returns is a clique
\* of the categorical modular product (its pairs are attribute-compatible,
\* pairwise distinct in both components, and adjacent in graph1 exactly
\* when adjacent in graph2), so no match is larger than the matches
\* categorical_maximum_common_subgraph returns for the same arguments, and
\* when it returns nothing so does categorical_maximum_common_subgraph.
C19_SoundUnderApproximation ==
    pc = "maximum_common_subgraph" =>
        LET categorical == categorical_maximum_common_subgraph(graph1, graph2, attributes)
        IN  /\ \A i \in DOMAIN matches :
                  LET pairs == MatchPairs(matches[i])
                  IN  /\ pairs \subseteq graph1.nodes \X graph2.nodes
                      /\ \A p \in pairs : Compatible(p[1], p[2])
                      /\ \A p, q \in pairs :
                            p # q =>
                               /\ p[1] # q[1]
                               /\ p[2] # q[2]
                               /\ has_edge(graph1, p[1], q[1]) <=> has_edge(graph2, p[2], q[2])
                      /\ \A j \in DOMAIN categorical :
                            Cardinality(pairs) <= Cardinality(DOMAIN categorical[j])
                      /\ categorical # << >>
            /\ (matches = << >> => categorical = << >>)

\* The degree-aware matches are strictly smaller than the categorical
\* ones, and they have two adjacent pairs.
C19_Witness ==
    /\ pc = "maximum_common_subgraph"
    /\ matches # << >>
    /\ \E i \in DOMAIN matches : \E k1, k2 \in DOMAIN matches[i] :
          has_edge(graph1, k1, k2) /\ has_edge(graph2, matches[i][k1], matches[i][k2])
    /\ LET categorical == categorical_maximum_common_subgraph(graph1, graph2, attributes)
       IN  \A i \in DOMAIN matches : \A j \in DOMAIN categorical :
              Cardinality(DOMAIN matches[i]) < Cardinality(DOMAIN categorical[j])
==========================================================================
